---- MODULE Spec2Model ----
(***************************************************************************)
(* url2anki: fetch one web page, select question and answer nodes, pair    *)
(* them into flashcards, optionally preview them, and export them to a     *)
(* JSON or CSV file (internal/url2anki/url2anki.go).                       *)
(*                                                                         *)
(* Texts, paths, input lines and file contents are sequences of one-       *)
(* character strings, so that the string functions of the code (ReplaceAll,*)
(* TrimSpace, HasSuffix, ToLower, the JSON and CSV encoders and decoders)  *)
(* are computed character by character.                                    *)
(***************************************************************************)
EXTENDS Integers, Sequences, FiniteSets, TLC

VARIABLES
    pc,          \* position of the caller: in Run, or in a test of one function
    flags,       \* the command's flags: url, selectors, output-file, preview
    page,        \* the document the test server serves (scrape test only)
    status,      \* res.StatusCode of the HTTP response, 0 while there is none
    flashcards,  \* the []Flashcard slice (nil or a sequence of cards)
    err,         \* the error of the last call: "nil" or its kind
    counts,      \* <<questions.Length(), answers.Length()>> once both ran
    stdin,       \* what the operator typed at the prompt, up to end of input
    response,    \* the token fmt.Scanln stored in response
    trace,       \* the calls made so far, in order
    out,         \* the lines printed to standard output, in order
    file,        \* the file at the output path: exists, data
    readBack     \* what the test parsed back from the file

vars == <<pc, flags, page, status, flashcards, err, counts, stdin, response, trace,
          out, file, readBack>>

-----------------------------------------------------------------------------
(* Bounds of the model.                                                    *)

\* nodes of a document in the scrape test, and characters of text in total
MaxNodes == 4
MaxChars == 2
\* nodes and characters of the response body in a full run
RunNodes == 3
RunChars == 1
\* cards handed to an export in its test, and characters of their texts in all
MaxCards == 2
CardChars == 2
\* characters the operator types at the preview prompt
MaxInput == 3
\* capacity of the buffer of the CSV writer (bufio's default, scaled down)
BufSize == 18
MaxText == 4

-----------------------------------------------------------------------------
(* Character sequences.                                                    *)

StringsUpTo(alphabet, n) == UNION {[1..k -> alphabet] : k \in 0..n}

\* unicode.IsSpace for the characters of the model
IsSpace(c) == c \in {" ", "\n", "\r", "\t"}

HasPrefix(s, prefix) ==
    /\ Len(s) >= Len(prefix)
    /\ SubSeq(s, 1, Len(prefix)) = prefix

HasInfix(s, infix) ==
    \E k \in 0..Len(s) :
        k + Len(infix) <= Len(s) /\ SubSeq(s, k + 1, k + Len(infix)) = infix

HasSuffix(s, suffix) ==
    /\ Len(s) >= Len(suffix)
    /\ SubSeq(s, Len(s) - Len(suffix) + 1, Len(s)) = suffix

\* strings.ReplaceAll(s, old, new) for a non-empty old: the non-overlapping
\* occurrences of old, left to right
RECURSIVE ReplaceAll(_, _, _)
ReplaceAll(s, old, new) ==
    IF s = <<>> THEN <<>>
    ELSE IF HasPrefix(s, old)
         THEN new \o ReplaceAll(SubSeq(s, Len(old) + 1, Len(s)), old, new)
         ELSE <<Head(s)>> \o ReplaceAll(Tail(s), old, new)

RECURSIVE TrimLeft(_)
TrimLeft(s) ==
    IF s # <<>> /\ IsSpace(Head(s)) THEN TrimLeft(Tail(s)) ELSE s

RECURSIVE TrimRight(_)
TrimRight(s) ==
    IF s # <<>> /\ IsSpace(s[Len(s)])
    THEN TrimRight(SubSeq(s, 1, Len(s) - 1))
    ELSE s

TrimSpaceOnce(s) ==
    LET l == IF s # <<>> /\ IsSpace(Head(s)) THEN Tail(s) ELSE s
    IN  IF l # <<>> /\ IsSpace(l[Len(l)]) THEN SubSeq(l, 1, Len(l) - 1) ELSE l

\* strings.TrimSpace
TrimSpace(s) == TrimRight(TrimLeft(s))

-----------------------------------------------------------------------------
(* Go slices of Flashcard: nil is not the empty slice.                     *)

NilSlice == [isNil |-> TRUE, elems |-> <<>>]
SliceOf(s) == [isNil |-> FALSE, elems |-> s]
append(slice, x) == SliceOf(Append(slice.elems, x))
len(slice) == Len(slice.elems)

Flashcard(q, a) == [Question |-> q, Answer |-> a]

-----------------------------------------------------------------------------
(* The document and the selectors. A document is its element nodes in      *)
(* document order, each with the class it carries and its text content; a  *)
(* selector names a class.                                                 *)

Classes == {"term-name", "term-definition"}
TextAlphabet == {"x", " ", "\n", "\r"}

\* k texts over the alphabet: at most budget characters in all
RECURSIVE TextsOver(_, _, _)
TextsOver(alphabet, k, budget) ==
    IF k = 0 THEN {<<>>}
    ELSE UNION {LET rest == TextsOver(alphabet, k - 1, budget - n)
                IN  {<<t>> \o ts : t \in [1..n -> alphabet], ts \in rest} :
                n \in 0..budget}

\* the k texts of a document
TextsOf(k, budget) == TextsOver(TextAlphabet, k, budget)

Doc(classes, texts) ==
    [i \in 1..Len(classes) |-> [class |-> classes[i], text |-> texts[i]]]

Docs(nodes, chars) ==
    UNION {{Doc(cs, ts) : cs \in [1..k -> Classes], ts \in TextsOf(k, chars)} :
           k \in 0..nodes}

\* doc.Find(selector): the matching nodes, in document order
RECURSIVE Find(_, _)
Find(doc, selector) ==
    IF doc = <<>> THEN <<>>
    ELSE (IF Head(doc).class = selector THEN <<Head(doc)>> ELSE <<>>)
         \o Find(Tail(doc), selector)

\* Selection.Eq(i), i counted from 0: the one node at i, or the empty selection
EqFirst(selection, i) ==
    IF selection # <<>> THEN <<selection[1]>> ELSE <<>>

Eq(selection, i) ==
    IF i >= 0 /\ i < Len(selection) THEN <<selection[i + 1]>> ELSE <<>>

\* Selection.Text(): the combined text of the nodes of the selection
RECURSIVE Text(_)
Text(selection) ==
    IF selection = <<>> THEN <<>>
    ELSE Head(selection).text \o Text(Tail(selection))

-----------------------------------------------------------------------------
(* scrapeFlashcards                                                        *)

\* the clean-up of a question or answer text
CleanNoTrim(text) ==
    ReplaceAll(ReplaceAll(text, <<"\n">>, <<>>), <<"\r", "\n">>, <<>>)

Clean(text) ==
    TrimSpace(ReplaceAll(ReplaceAll(text, <<"\n">>, <<>>), <<"\r", "\n">>, <<>>))

\* questions.Each(func(i, s) {...}) from index i on, appending to cards
RECURSIVE EachQuestion(_, _, _, _)
EachQuestion(questions, answers, i, cards) ==
    IF i >= Len(questions) THEN cards
    ELSE EachQuestion(questions, answers, i + 1,
            append(cards, Flashcard(Clean(Text(Eq(questions, i))),
                                    Clean(Text(Eq(answers, i))))))

\* The HTTP exchange as scrapeFlashcards sees it: http.Get fails (neterr), or
\* answers with a status code and a body; reading the body fails or yields
\* the document.
Statuses == {200, 301, 404, 500}
Responses(docs) ==
    {[neterr |-> TRUE, code |-> 0, readable |-> FALSE, doc |-> <<>>]}
    \cup {[neterr |-> FALSE, code |-> c, readable |-> r, doc |-> d] :
            c \in Statuses, r \in BOOLEAN, d \in docs}

\* line 91: only status 200 is a success
StatusOKBelow400(code) == code < 400

StatusOK(code) == code = 200

ReturnedLeaky(cards, e, res, n, calls) ==
    [flashcards |-> cards, err |-> e,
     status |-> res.code,
     counts |-> n,
     calls |-> calls \o (IF res.neterr \/ e # "nil" THEN <<>> ELSE <<"Body.Close">>)]

Returned(cards, e, res, n, calls) ==
    [flashcards |-> cards, err |-> e,
     status |-> res.code,
     counts |-> n,
     calls |-> calls \o (IF res.neterr THEN <<>> ELSE <<"Body.Close">>)]

PairPrefix(questions, answers) ==
    IF Len(questions) <= Len(answers) THEN questions
    ELSE SubSeq(questions, 1, Len(answers))

scrapeFlashcardsPrefix(res, questionSelector, answerSelector) ==
    LET questions == Find(res.doc, questionSelector)
        answers == Find(res.doc, answerSelector)
        n == <<Len(questions), Len(answers)>>
    IN  IF res.neterr THEN Returned(NilSlice, "transport", res, <<>>, <<"http.Get">>)
        ELSE IF ~StatusOK(res.code)
        THEN Returned(NilSlice, "status", res, <<>>, <<"http.Get">>)
        ELSE IF ~res.readable
        THEN Returned(NilSlice, "parse", res, <<>>, <<"http.Get", "parse">>)
        ELSE Returned(EachQuestion(PairPrefix(questions, answers), answers, 0, NilSlice),
                      "nil", res, n,
                      <<"http.Get", "parse", "Find", "Find", "Each">>)

scrapeFlashcards(res, questionSelector, answerSelector) ==
    LET questions == Find(res.doc, questionSelector)
        answers == Find(res.doc, answerSelector)
        n == <<Len(questions), Len(answers)>>
    IN  IF res.neterr THEN Returned(NilSlice, "transport", res, <<>>, <<"http.Get">>)
        ELSE IF ~StatusOK(res.code)
        THEN Returned(NilSlice, "status", res, <<>>, <<"http.Get">>)
        ELSE IF ~res.readable
        THEN Returned(NilSlice, "parse", res, <<>>, <<"http.Get", "parse">>)
        ELSE IF Len(questions) # Len(answers)
        THEN Returned(NilSlice, "mismatch", res, n,
                      <<"http.Get", "parse", "Find", "Find">>)
        ELSE Returned(EachQuestion(questions, answers, 0, NilSlice), "nil", res, n,
                      <<"http.Get", "parse", "Find", "Find", "Each">>)

-----------------------------------------------------------------------------
(* Files. The file system either refuses to create the file, or creates it *)
(* and then accepts every write, or accepts room characters in all and     *)
(* fails every write beyond them (a full disk, a quota).                   *)

NoFile == [exists |-> FALSE, data |-> <<>>]

FileSystems(rooms) ==
    {[create |-> FALSE, limited |-> FALSE, room |-> 0],
     [create |-> TRUE, limited |-> FALSE, room |-> 0]}
    \cup {[create |-> TRUE, limited |-> TRUE, room |-> r] : r \in rooms}

Min(a, b) == IF a <= b THEN a ELSE b

\* how many of the n characters offered the file takes
Accepted(f, n, fs) ==
    IF fs.limited
    THEN Min(n, IF fs.room > Len(f.data) THEN fs.room - Len(f.data) ELSE 0)
    ELSE n

\* file.Write(data): what fits is written; an error when not all of it fits
FileWrite(f, data, fs) ==
    [file |-> [f EXCEPT !.data = @ \o SubSeq(data, 1, Accepted(f, Len(data), fs))],
     failed |-> Accepted(f, Len(data), fs) < Len(data)]

-----------------------------------------------------------------------------
(* encoding/json: MarshalIndent(flashcards, "", "  ") of a []Flashcard     *)

\* a byte that is no valid UTF-8, and U+FFFD, which the encoder puts for it
InvalidByte == "<FF>"
ReplacementChar == "<FFFD>"

Hex4(c) ==
    CASE c = "<" -> <<"0", "0", "3", "c">>
      [] c = ">" -> <<"0", "0", "3", "e">>
      [] c = "&" -> <<"0", "0", "2", "6">>
      [] c = InvalidByte -> <<"f", "f", "f", "d">>

\* one character of a string as the encoder writes it (escapeHTML is on)
JSONCharRaw(c) == <<c>>

JSONChar(c) ==
    CASE c = "\"" -> <<"\\", "\"">>
      [] c = "\\" -> <<"\\", "\\">>
      [] c = "\n" -> <<"\\", "n">>
      [] c = "\r" -> <<"\\", "r">>
      [] c = "\t" -> <<"\\", "t">>
      [] c \in {"<", ">", "&", InvalidByte} -> <<"\\", "u">> \o Hex4(c)
      [] OTHER -> <<c>>

RECURSIVE JSONChars(_)
JSONChars(s) ==
    IF s = <<>> THEN <<>> ELSE JSONChar(Head(s)) \o JSONChars(Tail(s))

JSONString(s) == <<"\"">> \o JSONChars(s) \o <<"\"">>

KeyQuestion == <<"q", "u", "e", "s", "t", "i", "o", "n">>
KeyAnswer == <<"a", "n", "s", "w", "e", "r">>
Indent(n) == [i \in 1..(2 * n) |-> " "]

\* one Flashcard as an indented object at depth 1, fields in struct order
JSONObject(card) ==
    Indent(1) \o <<"{", "\n">>
    \o Indent(2) \o JSONString(KeyQuestion) \o <<":", " ">>
    \o JSONString(card.Question) \o <<",", "\n">>
    \o Indent(2) \o JSONString(KeyAnswer) \o <<":", " ">>
    \o JSONString(card.Answer) \o <<"\n">>
    \o Indent(1) \o <<"}">>

RECURSIVE JSONElements(_)
JSONElements(cards) ==
    IF cards = <<>> THEN <<>>
    ELSE JSONObject(Head(cards))
         \o (IF Tail(cards) = <<>> THEN <<>> ELSE <<",">>) \o <<"\n">>
         \o JSONElements(Tail(cards))

\* a nil slice encodes as null, an empty one as []
MarshalIndent(slice) ==
    IF slice.isNil THEN <<"n", "u", "l", "l">>
    ELSE IF slice.elems = <<>> THEN <<"[", "]">>
    ELSE <<"[", "\n">> \o JSONElements(slice.elems) \o <<"]">>

\* os.WriteFile: open with create and truncate, one write, close
WriteFile(f, data, fs) ==
    IF ~fs.create THEN [file |-> f, err |-> "open", calls |-> <<"os.WriteFile">>]
    ELSE LET w == FileWrite([exists |-> TRUE, data |-> <<>>], data, fs)
         IN  [file |-> w.file, err |-> IF w.failed THEN "write" ELSE "nil",
              calls |-> <<"os.WriteFile">>]

exportFlashcardsToJSONFile(slice, f, fs) ==
    WriteFile(f, MarshalIndent(slice), fs)

-----------------------------------------------------------------------------
(* bufio.Writer under csv.Writer: characters collect in a buffer of        *)
(* BufSize and reach the file when the buffer is full or on Flush; the     *)
(* first failed file write is kept as the writer's error.                  *)

NewWriter == [buf |-> <<>>, failed |-> FALSE]

\* bufio.Writer.Flush
Flush(w, f, fs) ==
    IF w.failed \/ w.buf = <<>> THEN [w |-> w, file |-> f]
    ELSE LET r == FileWrite(f, w.buf, fs)
             n == Len(r.file.data) - Len(f.data)
         IN  [w |-> [buf |-> SubSeq(w.buf, n + 1, Len(w.buf)), failed |-> r.failed],
              file |-> r.file]

\* the characters s written through the buffer, one at a time
RECURSIVE BufWrite(_, _, _, _)
BufWrite(w, f, s, fs) ==
    IF w.failed \/ s = <<>> THEN [w |-> w, file |-> f]
    ELSE IF Len(w.buf) >= BufSize
    THEN LET fl == Flush(w, f, fs)
         IN  BufWrite(fl.w, fl.file, s, fs)
    ELSE BufWrite([w EXCEPT !.buf = Append(@, Head(s))], f, Tail(s), fs)

-----------------------------------------------------------------------------
(* encoding/csv: Writer.Write of one record                                *)

Contains(s, chars) == \E i \in 1..Len(s) : s[i] \in chars

fieldNeedsQuotes(field) ==
    /\ field # <<>>
    /\ \/ field = <<"\\", ".">>
       \/ Contains(field, {"\n", "\r", "\"", ","})
       \/ IsSpace(field[1])

RECURSIVE QuotedChars(_)
QuotedChars(s) ==
    IF s = <<>> THEN <<>>
    ELSE (IF Head(s) = "\"" THEN <<"\"", "\"">> ELSE <<Head(s)>>)
         \o QuotedChars(Tail(s))

CSVField(field) ==
    IF fieldNeedsQuotes(field)
    THEN <<"\"">> \o QuotedChars(field) \o <<"\"">>
    ELSE field

RECURSIVE CSVFields(_)
CSVFields(record) ==
    IF record = <<>> THEN <<>>
    ELSE CSVField(Head(record))
         \o (IF Tail(record) = <<>> THEN <<>> ELSE <<",">>)
         \o CSVFields(Tail(record))

\* the line Writer.Write puts into the buffer for a record
CSVLine(record) == CSVFields(record) \o <<"\n">>

Header == <<<<"Q", "u", "e", "s", "t", "i", "o", "n">>,
            <<"A", "n", "s", "w", "e", "r">>>>

Row(card) == <<card.Question, card.Answer>>

-----------------------------------------------------------------------------
(* exportFlashcardsToCSVFile                                               *)

\* the loop over the flashcards: stops at the first Write that fails;
\* n counts the calls of Write
RECURSIVE WriteRows(_, _, _, _, _)
WriteRows(cards, w, f, fs, n) ==
    IF cards = <<>> THEN [w |-> w, file |-> f, n |-> n]
    ELSE LET r == BufWrite(w, f, CSVLine(Row(Head(cards))), fs)
         IN  IF r.w.failed THEN [w |-> r.w, file |-> r.file, n |-> n + 1]
             ELSE WriteRows(Tail(cards), r.w, r.file, fs, n + 1)

\* the deferred calls run first deferred first: the file is closed, and the
\* writer's flush then fails on the closed file
DeferredCloseFirst(r, e, fs) ==
    [file |-> r.file, err |-> e, rows |-> r.n, flushed |-> FALSE,
     calls |-> <<"os.Create">> \o [i \in 1..r.n |-> "Write"]
               \o <<"Close", "Flush">>]

\* the deferred calls, last deferred first: writer.Flush(), then file.Close()
Deferred(r, e, fs) ==
    LET fl == Flush(r.w, r.file, fs)
    IN  [file |-> fl.file, err |-> e, rows |-> r.n, flushed |-> ~fl.w.failed,
         calls |-> <<"os.Create">> \o [i \in 1..r.n |-> "Write"]
                   \o <<"Flush", "Close">>]

exportFlashcardsToCSVFile(slice, f, fs) ==
    IF ~fs.create
    THEN [file |-> f, err |-> "create", rows |-> 0, flushed |-> FALSE,
          calls |-> <<"os.Create">>]
    ELSE LET created == [exists |-> TRUE, data |-> <<>>]
             h == BufWrite(NewWriter, created, CSVLine(Header), fs)
             rows == WriteRows(slice.elems, h.w, h.file, fs, 1)
         IN  IF h.w.failed
             THEN Deferred([w |-> h.w, file |-> h.file, n |-> 1], "write", fs)
             ELSE Deferred(rows, IF rows.w.failed THEN "write" ELSE "nil", fs)

-----------------------------------------------------------------------------
(* fmt.Scanln(&response) and strings.ToLower                               *)

InputAlphabet == {"y", "Y", "n", " ", "\n"}

\* the first index from i on whose character is not a blank within the line
RECURSIVE SkipBlanks(_, _)
SkipBlanks(s, i) ==
    IF i <= Len(s) /\ IsSpace(s[i]) /\ s[i] # "\n" THEN SkipBlanks(s, i + 1) ELSE i

\* the first index from i on whose character is a space, or Len(s) + 1
RECURSIVE TokenEnd(_, _)
TokenEnd(s, i) ==
    IF i <= Len(s) /\ ~IsSpace(s[i]) THEN TokenEnd(s, i + 1) ELSE i

\* Scanln with one string operand on the input s followed by end of input:
\* blanks are skipped, the token is read, and only blanks may follow it up to
\* the newline or the end of input
ScanlnFirstToken(s) ==
    LET i == SkipBlanks(s, 1)
        j == TokenEnd(s, i)
    IN  IF i > Len(s) THEN [response |-> <<>>, err |-> "unexpected EOF"]
        ELSE IF s[i] = "\n" THEN [response |-> <<>>, err |-> "unexpected newline"]
        ELSE [response |-> SubSeq(s, i, j - 1), err |-> "nil"]

Scanln(s) ==
    LET i == SkipBlanks(s, 1)
        j == TokenEnd(s, i)
        k == SkipBlanks(s, j)
    IN  IF i > Len(s) THEN [response |-> <<>>, err |-> "unexpected EOF"]
        ELSE IF s[i] = "\n" THEN [response |-> <<>>, err |-> "unexpected newline"]
        ELSE IF k <= Len(s) /\ s[k] # "\n"
        THEN [response |-> SubSeq(s, i, j - 1), err |-> "expected newline"]
        ELSE [response |-> SubSeq(s, i, j - 1), err |-> "nil"]

LowerChar(c) ==
    CASE c = "Y" -> "y"
      [] c = "N" -> "n"
      [] OTHER -> c

ToLower(s) == [i \in 1..Len(s) |-> LowerChar(s[i])]

-----------------------------------------------------------------------------
(* The flags of the command.                                               *)

URLs == {"http://host/glossary", "/glossary", "glossary"}

\* url.ParseRequestURI: an absolute URI or an absolute path parses, anything
\* else yields a nil *URL and an error
ParseRequestURI(rawURL) == rawURL \in {"http://host/glossary", "/glossary"}

\* http.Get needs a scheme it supports
Fetchable(url) == url = "http://host/glossary"

DotJSON == <<".", "j", "s", "o", "n">>
DotCSV == <<".", "c", "s", "v">>
Stem == <<"a">>
Paths == {<<>>, DotJSON, Stem \o DotJSON, Stem \o DotCSV,
          Stem \o DotJSON \o DotCSV, Stem \o <<"j", "s", "o", "n">>,
          Stem \o DotCSV \o Stem}

\* The question selector is fixed and the answer selector is the same or the
\* other class: the two classes are interchangeable.
Flags == [url : URLs, questionSelector : {"term-name"}, answerSelector : Classes,
          outputFile : Paths, preview : BOOLEAN]

-----------------------------------------------------------------------------
(* TestScrapeFlashcards: a test server serves the page with status 200 and *)
(* the test calls scrapeFlashcards with the two selectors of the test.     *)

NoFlags == [url |-> "", questionSelector |-> "", answerSelector |-> "",
            outputFile |-> <<>>, preview |-> FALSE]
Quiet == /\ status = 0
         /\ flashcards = NilSlice
         /\ err = "nil"
         /\ counts = <<>>
         /\ stdin = <<>>
         /\ response = <<>>
         /\ trace = <<>>
         /\ out = <<>>
         /\ file = NoFile
         /\ readBack = <<>>
Served(doc) == [neterr |-> FALSE, code |-> 200, readable |-> TRUE, doc |-> doc]

ScrapeInit ==
    /\ pc = "test"
    /\ \E k \in 0..MaxNodes :
         \E cs \in [1..k -> Classes], ts \in TextsOf(k, MaxChars) :
           page = Doc(cs, ts)
    /\ flags = [NoFlags EXCEPT !.questionSelector = "term-name",
                              !.answerSelector = "term-definition"]
    /\ Quiet

TestScrapeFlashcards ==
    /\ pc = "test"
    /\ LET r == scrapeFlashcards(Served(page), flags.questionSelector,
                                 flags.answerSelector)
       IN  /\ flashcards' = r.flashcards
           /\ err' = r.err
           /\ status' = r.status
           /\ counts' = r.counts
           /\ trace' = trace \o r.calls
    /\ pc' = "returned"
    /\ UNCHANGED <<flags, page, stdin, response, out, file, readBack>>

ScrapeNext == TestScrapeFlashcards

SpecScrape == ScrapeInit /\ [][ScrapeNext]_vars

-----------------------------------------------------------------------------
(* encoding/json: Unmarshal(data, &exportedFlashcards) into a []Flashcard. *)
(* A parse result is [ok, val, pos]: pos is the index of the next          *)
(* character.                                                              *)

JSONSpace == {" ", "\t", "\n", "\r"}

RECURSIVE SkipSpace(_, _)
SkipSpace(s, i) ==
    IF i <= Len(s) /\ s[i] \in JSONSpace THEN SkipSpace(s, i + 1) ELSE i

Failed(i) == [ok |-> FALSE, val |-> <<>>, pos |-> i]

At(s, i, c) == i <= Len(s) /\ s[i] = c

\* the character a \uXXXX escape stands for
Unhex4(h) ==
    CASE h = <<"0", "0", "3", "c">> -> "<"
      [] h = <<"0", "0", "3", "e">> -> ">"
      [] h = <<"0", "0", "2", "6">> -> "&"
      [] h = <<"f", "f", "f", "d">> -> ReplacementChar
      [] OTHER -> "?"

\* the characters of a string literal from i on, up to its closing quote
RECURSIVE StringBody(_, _, _)
StringBody(s, i, acc) ==
    IF i > Len(s) THEN Failed(i)
    ELSE IF s[i] = "\"" THEN [ok |-> TRUE, val |-> acc, pos |-> i + 1]
    ELSE IF s[i] \in {"\n", "\r", "\t"} THEN Failed(i)
    ELSE IF s[i] = InvalidByte THEN StringBody(s, i + 1, Append(acc, ReplacementChar))
    ELSE IF s[i] # "\\" THEN StringBody(s, i + 1, Append(acc, s[i]))
    ELSE IF i + 1 > Len(s) THEN Failed(i)
    ELSE IF s[i + 1] \in {"\"", "\\", "/"}
    THEN StringBody(s, i + 2, Append(acc, s[i + 1]))
    ELSE IF s[i + 1] = "n" THEN StringBody(s, i + 2, Append(acc, "\n"))
    ELSE IF s[i + 1] = "r" THEN StringBody(s, i + 2, Append(acc, "\r"))
    ELSE IF s[i + 1] = "t" THEN StringBody(s, i + 2, Append(acc, "\t"))
    ELSE IF s[i + 1] = "u" /\ i + 5 <= Len(s)
    THEN StringBody(s, i + 6, Append(acc, Unhex4(SubSeq(s, i + 2, i + 5))))
    ELSE Failed(i)

ParseString(s, i) ==
    IF At(s, i, "\"") THEN StringBody(s, i + 1, <<>>) ELSE Failed(i)

\* the members of an object from i on, stored into the card by their keys;
\* a key that names no field is skipped
RECURSIVE ParseMembers(_, _, _)
ParseMembers(s, i, card) ==
    LET key == ParseString(s, SkipSpace(s, i))
        colon == SkipSpace(s, key.pos)
        value == ParseString(s, SkipSpace(s, colon + 1))
        next == SkipSpace(s, value.pos)
        stored == IF key.val = KeyQuestion THEN [card EXCEPT !.Question = value.val]
                  ELSE IF key.val = KeyAnswer THEN [card EXCEPT !.Answer = value.val]
                  ELSE card
    IN  IF ~key.ok \/ ~At(s, colon, ":") \/ ~value.ok THEN Failed(i)
        ELSE IF At(s, next, ",") THEN ParseMembers(s, next + 1, stored)
        ELSE IF At(s, next, "}") THEN [ok |-> TRUE, val |-> stored, pos |-> next + 1]
        ELSE Failed(next)

ParseObject(s, i) ==
    IF ~At(s, i, "{") THEN Failed(i)
    ELSE IF At(s, SkipSpace(s, i + 1), "}")
    THEN [ok |-> TRUE, val |-> Flashcard(<<>>, <<>>), pos |-> SkipSpace(s, i + 1) + 1]
    ELSE ParseMembers(s, i + 1, Flashcard(<<>>, <<>>))

RECURSIVE ParseElements(_, _, _)
ParseElements(s, i, cards) ==
    LET card == ParseObject(s, SkipSpace(s, i))
        next == SkipSpace(s, card.pos)
    IN  IF ~card.ok THEN Failed(i)
        ELSE IF At(s, next, ",") THEN ParseElements(s, next + 1, Append(cards, card.val))
        ELSE IF At(s, next, "]")
        THEN [ok |-> TRUE, val |-> Append(cards, card.val), pos |-> next + 1]
        ELSE Failed(next)

ParseArray(s, i) ==
    IF ~At(s, i, "[") THEN Failed(i)
    ELSE IF At(s, SkipSpace(s, i + 1), "]")
    THEN [ok |-> TRUE, val |-> <<>>, pos |-> SkipSpace(s, i + 1) + 1]
    ELSE ParseElements(s, i + 1, <<>>)

\* null leaves the slice nil; an array fills it; anything else is an error
Unmarshal(data) ==
    LET i == SkipSpace(data, 1)
        array == ParseArray(data, i)
    IN  IF i + 3 <= Len(data)
           /\ SubSeq(data, i, i + 3) = <<"n", "u", "l", "l">>
           /\ SkipSpace(data, i + 4) > Len(data)
        THEN [flashcards |-> NilSlice, err |-> "nil"]
        ELSE IF array.ok /\ SkipSpace(data, array.pos) > Len(data)
        THEN [flashcards |-> SliceOf(array.val), err |-> "nil"]
        ELSE [flashcards |-> NilSlice, err |-> "syntax"]

-----------------------------------------------------------------------------
(* TestExportFlashcardsToFile: the test exports a card sequence to a JSON  *)
(* file, reads the file and unmarshals it.                                 *)

JSONAlphabet == {"x", "\"", "\\", "<", "\n", InvalidByte}

\* the cards made of 2n texts, question then answer
Cards(texts) ==
    [i \in 1..(Len(texts) \div 2) |-> Flashcard(texts[2 * i - 1], texts[2 * i])]

\* the slices of up to MaxCards cards over the alphabet; with no card, the nil
\* slice and the empty slice
TestSlices(alphabet) ==
    {NilSlice}
    \cup UNION {{SliceOf(Cards(ts)) : ts \in TextsOver(alphabet, 2 * n, CardChars)} :
                n \in 0..MaxCards}

JSONInit ==
    /\ pc = "test"
    /\ flags = NoFlags
    /\ page = <<>>
    /\ flashcards \in TestSlices(JSONAlphabet)
    /\ status = 0
    /\ err = "nil"
    /\ counts = <<>>
    /\ stdin = <<>>
    /\ response = <<>>
    /\ trace = <<>>
    /\ out = <<>>
    /\ file = NoFile
    /\ readBack = <<>>

\* lines 66-69 of the test: a failed export ends the test
TestExportJSON ==
    /\ pc = "test"
    /\ \E fs \in FileSystems({0}) :
         LET r == exportFlashcardsToJSONFile(flashcards, file, fs)
         IN  /\ file' = r.file
             /\ err' = r.err
             /\ trace' = trace \o <<"exportFlashcardsToJSONFile">> \o r.calls
             /\ pc' = IF r.err = "nil" THEN "exported" ELSE "failed"
    /\ UNCHANGED <<flags, page, status, flashcards, counts, stdin, response, out,
                   readBack>>

\* lines 71-80 of the test
TestUnmarshal ==
    /\ pc = "exported"
    /\ LET r == Unmarshal(file.data)
       IN  /\ readBack' = r.flashcards.elems
           /\ err' = r.err
           /\ pc' = IF r.err = "nil" THEN "parsed" ELSE "failed"
    /\ trace' = trace \o <<"os.ReadFile", "json.Unmarshal">>
    /\ UNCHANGED <<flags, page, status, flashcards, counts, stdin, response, out,
                   file>>

JSONNext ==
    \/ TestExportJSON
    \/ TestUnmarshal

SpecJSON == JSONInit /\ [][JSONNext]_vars

-----------------------------------------------------------------------------
(* encoding/csv: Reader.ReadAll with the default settings. A field result  *)
(* is [ok, val, pos, last]: last tells that the field ends its record.     *)

\* readLine: a carriage return before a line feed is dropped, and so is one
\* at the very end of the input
ReadLines(data) ==
    LET s == ReplaceAll(data, <<"\r", "\n">>, <<"\n">>)
    IN  IF s # <<>> /\ s[Len(s)] = "\r" THEN SubSeq(s, 1, Len(s) - 1) ELSE s

BadField(i) == [ok |-> FALSE, val |-> <<>>, pos |-> i, last |-> TRUE]

\* a quoted field from i on, after its opening quote
RECURSIVE QuotedField(_, _, _)
QuotedField(s, i, acc) ==
    IF i > Len(s) THEN BadField(i)
    ELSE IF s[i] # "\"" THEN QuotedField(s, i + 1, Append(acc, s[i]))
    ELSE IF i + 1 > Len(s) THEN [ok |-> TRUE, val |-> acc, pos |-> i + 1, last |-> TRUE]
    ELSE IF s[i + 1] = "\"" THEN QuotedField(s, i + 2, Append(acc, "\""))
    ELSE IF s[i + 1] = "," THEN [ok |-> TRUE, val |-> acc, pos |-> i + 2, last |-> FALSE]
    ELSE IF s[i + 1] = "\n" THEN [ok |-> TRUE, val |-> acc, pos |-> i + 2, last |-> TRUE]
    ELSE BadField(i)

\* the first index from i on that holds a comma or a line feed, or Len(s) + 1
RECURSIVE FieldEnd(_, _)
FieldEnd(s, i) ==
    IF i <= Len(s) /\ s[i] \notin {",", "\n"} THEN FieldEnd(s, i + 1) ELSE i

\* a field that does not start with a quote; a quote inside it is an error
UnquotedField(s, i) ==
    LET j == FieldEnd(s, i)
        val == SubSeq(s, i, j - 1)
    IN  IF Contains(val, {"\""}) THEN BadField(i)
        ELSE [ok |-> TRUE, val |-> val, pos |-> j + 1, last |-> ~At(s, j, ",")]

RECURSIVE ReadRecord(_, _, _)
ReadRecord(s, i, fields) ==
    LET f == IF At(s, i, "\"") THEN QuotedField(s, i + 1, <<>>)
             ELSE UnquotedField(s, i)
    IN  IF ~f.ok THEN [ok |-> FALSE, val |-> fields, pos |-> i]
        ELSE IF f.last THEN [ok |-> TRUE, val |-> Append(fields, f.val), pos |-> f.pos]
        ELSE ReadRecord(s, f.pos, Append(fields, f.val))

\* the records from i on: empty lines are skipped, and every record must have
\* as many fields as the first
RECURSIVE ReadRecords(_, _, _)
ReadRecords(s, i, records) ==
    IF i > Len(s) THEN [records |-> records, err |-> "nil"]
    ELSE IF s[i] = "\n" THEN ReadRecords(s, i + 1, records)
    ELSE LET r == ReadRecord(s, i, <<>>)
         IN  IF ~r.ok THEN [records |-> records, err |-> "quote"]
             ELSE IF records # <<>> /\ Len(r.val) # Len(records[1])
             THEN [records |-> records, err |-> "field count"]
             ELSE ReadRecords(s, r.pos, Append(records, r.val))

ReadAll(data) == ReadRecords(ReadLines(data), 1, <<>>)

-----------------------------------------------------------------------------
(* TestExportFlashcardsToCSVFile: the test exports a card sequence to a    *)
(* CSV file and reads all its records.                                     *)

CSVAlphabet == {"x", ",", "\"", " ", "\r", "\n"}

CSVInit ==
    /\ pc = "test"
    /\ flags = NoFlags
    /\ page = <<>>
    /\ flashcards \in TestSlices(CSVAlphabet)
    /\ status = 0
    /\ err = "nil"
    /\ counts = <<>>
    /\ stdin = <<>>
    /\ response = <<>>
    /\ trace = <<>>
    /\ out = <<>>
    /\ file = NoFile
    /\ readBack = <<>>

\* lines 107-110 of the test: a failed export ends the test
TestExportCSV ==
    /\ pc = "test"
    /\ \E fs \in FileSystems({0, BufSize}) :
         LET r == exportFlashcardsToCSVFile(flashcards, file, fs)
         IN  /\ file' = r.file
             /\ err' = r.err
             /\ trace' = trace \o <<"exportFlashcardsToCSVFile">> \o r.calls
             /\ pc' = IF r.err = "nil" THEN "exported" ELSE "failed"
    /\ UNCHANGED <<flags, page, status, flashcards, counts, stdin, response, out,
                   readBack>>

\* lines 112-123 of the test
TestReadAll ==
    /\ pc = "exported"
    /\ LET r == ReadAll(file.data)
       IN  /\ readBack' = r.records
           /\ err' = r.err
           /\ pc' = IF r.err = "nil" THEN "parsed" ELSE "failed"
    /\ trace' = trace \o <<"os.Open", "csv.ReadAll">>
    /\ UNCHANGED <<flags, page, status, flashcards, counts, stdin, response, out,
                   file>>

CSVNext ==
    \/ TestExportCSV
    \/ TestReadAll

SpecCSV == CSVInit /\ [][CSVNext]_vars

-----------------------------------------------------------------------------
(* Run, one action for each stretch between two blocking calls.            *)

\* lines 53-60: what follows the operator's answer r, the result of Scanln
PreviewOutcomeFallThrough(r) ==
    IF r.err # "nil"
    THEN [pc |-> "returned", says |-> <<"Error getting response from user: ">>]
    ELSE IF ToLower(r.response) # <<"y">>
    THEN [pc |-> "json", says |-> <<"Aborting.">>]
    ELSE [pc |-> "json", says |-> <<>>]

PreviewOutcomeIgnoresError(r) ==
    IF r.err # "nil"
    THEN [pc |-> "json", says |-> <<"Error getting response from user: ">>]
    ELSE IF ToLower(r.response) # <<"y">>
    THEN [pc |-> "returned", says |-> <<"Aborting.">>]
    ELSE [pc |-> "json", says |-> <<>>]

PreviewOutcome(r) ==
    IF r.err # "nil"
    THEN [pc |-> "returned", says |-> <<"Error getting response from user: ">>]
    ELSE IF ToLower(r.response) # <<"y">>
    THEN [pc |-> "returned", says |-> <<"Aborting.">>]
    ELSE [pc |-> "json", says |-> <<>>]

Init ==
    /\ pc = "Run"
    /\ flags \in Flags
    /\ page = <<>>
    /\ Quiet

\* lines 31-44: the flags are read, the URL parsed, the page scraped
RunScrape ==
    /\ pc = "Run"
    /\ IF ~ParseRequestURI(flags.url)
       THEN \* pageURL is nil: pageURL.String() dereferences it
            /\ pc' = "panicked"
            /\ trace' = trace \o <<"panic">>
            /\ UNCHANGED <<status, flashcards, err, counts, out>>
       ELSE \E res \in IF Fetchable(flags.url)
                        THEN Responses(Docs(RunNodes, RunChars))
                        ELSE Responses({}) :
              LET r == scrapeFlashcards(res, flags.questionSelector,
                                        flags.answerSelector)
              IN  /\ flashcards' = r.flashcards
                  /\ err' = r.err
                  /\ status' = r.status
                  /\ counts' = r.counts
                  /\ trace' = trace \o <<"scrapeFlashcards">> \o r.calls
                  /\ IF r.err # "nil"
                     THEN /\ out' = out \o <<"Error scraping flashcards: ">>
                          /\ pc' = "returned"
                     ELSE /\ out' = out
                          /\ pc' = "preview"
    /\ UNCHANGED <<flags, page, stdin, response, file, readBack>>

\* lines 46-61: the preview and the operator's answer
RunPreview ==
    /\ pc = "preview"
    /\ IF ~flags.preview
       THEN /\ pc' = "json"
            /\ UNCHANGED <<stdin, response, err, trace, out>>
       ELSE \E typed \in StringsUpTo(InputAlphabet, MaxInput) :
              LET r == Scanln(typed)
                  shown == out \o <<"Preview of flashcards:", "printFlashcards",
                                    "Do they look ok? (y/n): ">>
              IN  /\ stdin' = typed
                  /\ response' = r.response
                  /\ err' = r.err
                  /\ trace' = trace \o <<"printFlashcards", "Scanln">>
                  /\ out' = shown \o PreviewOutcome(r).says
                  /\ pc' = PreviewOutcome(r).pc
    /\ UNCHANGED <<flags, page, status, flashcards, counts, file, readBack>>

\* lines 63-70
RunExportJSON ==
    /\ pc = "json"
    /\ IF flags.outputFile # <<>> /\ HasSuffix(flags.outputFile, DotJSON)
       THEN \E fs \in FileSystems({0}) :
              LET r == exportFlashcardsToJSONFile(flashcards, file, fs)
              IN  /\ file' = r.file
                  /\ err' = r.err
                  /\ trace' = trace \o <<"exportFlashcardsToJSONFile">> \o r.calls
                  /\ IF r.err # "nil"
                     THEN /\ out' = out \o <<"Error exporting flashcards to JSON file: ">>
                          /\ pc' = "returned"
                     ELSE /\ out' = out \o <<"Flashcards exported to">>
                          /\ pc' = "csv"
       ELSE /\ pc' = "csv"
            /\ UNCHANGED <<file, err, trace, out>>
    /\ UNCHANGED <<flags, page, status, flashcards, counts, stdin, response, readBack>>

\* lines 72-80
RunExportCSV ==
    /\ pc = "csv"
    /\ IF flags.outputFile # <<>> /\ HasSuffix(flags.outputFile, DotCSV)
       THEN \E fs \in FileSystems({0, BufSize}) :
              LET r == exportFlashcardsToCSVFile(flashcards, file, fs)
              IN  /\ file' = r.file
                  /\ err' = r.err
                  /\ trace' = trace \o <<"exportFlashcardsToCSVFile">> \o r.calls
                  /\ IF r.err # "nil"
                     THEN out' = out \o <<"Error exporting flashcards to CSV file: ">>
                     ELSE out' = out \o <<"Flashcards exported to">>
       ELSE UNCHANGED <<file, err, trace, out>>
    /\ pc' = "returned"
    /\ UNCHANGED <<flags, page, status, flashcards, counts, stdin, response, readBack>>

Next ==
    \/ RunScrape
    \/ RunPreview
    \/ RunExportJSON
    \/ RunExportCSV

Spec == Init /\ [][Next]_vars

\* Run is one goroutine of straight-line code: whenever it has a next step,
\* it takes it once the blocking call of that step returns
LiveSpec == Spec /\ WF_vars(Next)

-----------------------------------------------------------------------------
(* The clean-up of lines 113-115 and 119-121 on its own: a text of one     *)
(* node is cleaned, and the result is cleaned once more; readBack holds    *)
(* the results in turn.                                                    *)

NormalizeInit ==
    /\ pc = "normalize"
    /\ \E text \in StringsUpTo(TextAlphabet, MaxText) :
         page = Doc(<<"term-name">>, <<text>>)
    /\ flags = NoFlags
    /\ Quiet

Normalize ==
    /\ pc = "normalize"
    /\ readBack' = Append(readBack, Clean(IF readBack = <<>> THEN Text(Eq(page, 0))
                                          ELSE readBack[Len(readBack)]))
    /\ pc' = IF readBack = <<>> THEN "normalize" ELSE "normalized"
    /\ UNCHANGED <<flags, page, status, flashcards, err, counts, stdin, response,
                   trace, out, file>>

NormalizeNext == Normalize

SpecNormalize == NormalizeInit /\ [][NormalizeNext]_vars

-----------------------------------------------------------------------------
(* What the claims speak of, stated on the state without the operators of  *)
(* the model above.                                                        *)

Happened(call) == \E i \in 1..Len(trace) : trace[i] = call

ErrorMessages == {"Error scraping flashcards: ",
                  "Error getting response from user: ",
                  "Error exporting flashcards to JSON file: ",
                  "Error exporting flashcards to CSV file: "}
Printed(message) == \E i \in 1..Len(out) : out[i] = message
ErrorReported == \E i \in 1..Len(out) : out[i] \in ErrorMessages

NoExport ==
    /\ file = NoFile
    /\ ~Happened("exportFlashcardsToJSONFile")
    /\ ~Happened("exportFlashcardsToCSVFile")

NotLF(c) == c # "\n"
Whitespace == {" ", "\t", "\n", "\r"}
NonBlank(s) == {i \in 1..Len(s) : s[i] \notin Whitespace}
Least(S) == CHOOSE i \in S : \A j \in S : i <= j
Greatest(S) == CHOOSE i \in S : \A j \in S : j <= i

\* a text without its line feeds and without the whitespace around it
NormalizedText(t) ==
    LET u == SelectSeq(t, NotLF)
    IN  IF NonBlank(u) = {} THEN <<>>
        ELSE SubSeq(u, Least(NonBlank(u)), Greatest(NonBlank(u)))

\* the nodes of the served page that carry the class, in document order
Matches(class) ==
    LET HasClass(node) == node.class = class
    IN  SelectSeq(page, HasClass)

\* the operator's input line: what was typed before the first line feed
InputLine ==
    LET nl == {i \in 1..Len(stdin) : stdin[i] = "\n"}
    IN  IF nl = {} THEN stdin ELSE SubSeq(stdin, 1, Least(nl) - 1)

\* the indices at which a token of the line starts
TokenStarts(line) ==
    {i \in 1..Len(line) : line[i] # " " /\ (i = 1 \/ line[i - 1] = " ")}

FirstToken(line) ==
    IF TokenStarts(line) = {} THEN <<>>
    ELSE LET i == Least(TokenStarts(line))
             j == Least({k \in i..Len(line) : k = Len(line) \/ line[k + 1] = " "})
         IN  SubSeq(line, i, j)

IsYes(token) == token \in {<<"y">>, <<"Y">>}

Answered == Happened("Scanln")
AbortedAtPreview == Answered /\ (Printed("Aborting.")
                                 \/ Printed("Error getting response from user: "))
Confirmed == Answered /\ ~AbortedAtPreview

EndsWith(path, suffix) ==
    \E k \in 0..Len(path) : SubSeq(path, k + 1, Len(path)) = suffix

-----------------------------------------------------------------------------
(* The claims.                                                             *)

\* C1: whenever the question selector and the answer selector match different
\* numbers of nodes, scrapeFlashcards returns the count-mismatch error and no
\* cards, Run returns, and no output file is written.
C1_MismatchFailsWithoutCards ==
    (counts # <<>> /\ counts[1] # counts[2]) =>
        /\ err = "mismatch"
        /\ flashcards = NilSlice
        /\ pc = "returned"
        /\ NoExport

\* two question matches against one answer match: a prefix could be paired
C1_Witness ==
    /\ counts = <<2, 1>>
    /\ pc = "returned"
    /\ Printed("Error scraping flashcards: ")

\* C2: when both selectors match N nodes, scrapeFlashcards returns exactly N
\* cards, the i-th made of the normalized text of the i-th question match and
\* of the i-th answer match, in document order, duplicates included.
C2_PairsInDocumentOrder ==
    (pc = "returned"
     /\ Len(Matches(flags.questionSelector)) = Len(Matches(flags.answerSelector))) =>
        /\ err = "nil"
        /\ len(flashcards) = Len(Matches(flags.questionSelector))
        /\ \A i \in 1..len(flashcards) :
             /\ flashcards.elems[i].Question =
                    NormalizedText(Matches(flags.questionSelector)[i].text)
             /\ flashcards.elems[i].Answer =
                    NormalizedText(Matches(flags.answerSelector)[i].text)

\* two pairs whose questions differ and whose answers differ
C2_Witness ==
    /\ pc = "returned"
    /\ len(flashcards) = 2
    /\ flashcards.elems[1].Question # flashcards.elems[2].Question
    /\ flashcards.elems[1].Answer # flashcards.elems[2].Answer

C4_BadStatusStopsTheRun ==
    (status # 0 /\ status # 200) =>
        /\ err = "status"
        /\ pc = "returned"
        /\ trace = <<"scrapeFlashcards", "http.Get", "Body.Close">>
        /\ out = <<"Error scraping flashcards: ">>
        /\ flashcards = NilSlice
        /\ counts = <<>>
        /\ NoExport

C4_Witness ==
    /\ status = 301
    /\ flags.preview
    /\ EndsWith(flags.outputFile, DotCSV)
    /\ pc = "returned"

\* C5 as claimed: with preview enabled the run goes on to the export exactly
\* when the first token of the input line is "y" in either case, whatever
\* follows that token.
C5_FirstTokenDecides ==
    Answered => (Confirmed <=> IsYes(FirstToken(InputLine)))

\* C5 as amended: the run goes on to the export exactly when the input line
\* holds one token only and that token is "y" in either case.
C5_OnlyTokenDecides ==
    Answered =>
        (Confirmed <=> (Cardinality(TokenStarts(InputLine)) = 1
                        /\ IsYes(FirstToken(InputLine))))

\* the operator typed a blank and an upper-case Y, and the run went on
C5_Witness ==
    /\ Confirmed
    /\ stdin = <<" ", "Y", "\n">>
    /\ pc = "json"

\* C6 as claimed: an aborted preview ends the run with no file written and
\* no error reported.
C6_AbortIsSilent ==
    AbortedAtPreview => (pc = "returned" /\ NoExport /\ ~ErrorReported)

\* C6 as amended: an aborted preview ends the run with no file written; no
\* error is reported when the line holds exactly one token, and the input
\* error is reported when it holds none or several or the read fails.
C6_AbortWritesNothing ==
    AbortedAtPreview =>
        /\ pc = "returned"
        /\ NoExport
        /\ ErrorReported <=> Cardinality(TokenStarts(InputLine)) # 1
        /\ ~ErrorReported => Printed("Aborting.")

\* the operator typed n, and the output path asks for a CSV file
C6_Witness ==
    /\ AbortedAtPreview
    /\ stdin = <<"n", "\n">>
    /\ EndsWith(flags.outputFile, DotCSV)
    /\ pc = "returned"

\* the run got past the scrape and the preview and has returned
PastExports ==
    /\ pc = "returned"
    /\ Happened("Each")
    /\ flags.preview => Confirmed

\* C7: once the run is past the preview, the suffix of the output path alone
\* selects the export: ".json" the JSON export and not the CSV export, ".csv"
\* the CSV export and not the JSON export, and any other path, the empty
\* path included, writes no file and reports no error.
C7_SuffixSelectsExport ==
    PastExports =>
        /\ Happened("exportFlashcardsToJSONFile") <=> EndsWith(flags.outputFile, DotJSON)
        /\ Happened("exportFlashcardsToCSVFile") <=> EndsWith(flags.outputFile, DotCSV)
        /\ ~(Happened("exportFlashcardsToJSONFile")
              /\ Happened("exportFlashcardsToCSVFile"))
        /\ (~EndsWith(flags.outputFile, DotJSON) /\ ~EndsWith(flags.outputFile, DotCSV))
             => (file = NoFile /\ ~ErrorReported)

\* the path holds ".json" and ends in ".csv": the CSV file is written
C7_Witness ==
    /\ PastExports
    /\ flags.outputFile = Stem \o DotJSON \o DotCSV
    /\ file.exists
    /\ Happened("exportFlashcardsToCSVFile")

\* a text without a byte that is no valid UTF-8
ValidUTF8(text) == \A k \in 1..Len(text) : text[k] # InvalidByte

\* C8 as claimed: every card sequence exported to JSON and parsed back yields
\* as many cards, equal to the originals field for field, in the same order.
C8_JSONRoundTrip ==
    Happened("json.Unmarshal") =>
        /\ pc = "parsed"
        /\ readBack = flashcards.elems

\* C8 as amended: the same for card sequences whose texts are valid UTF-8;
\* a byte that is no valid UTF-8 comes back as U+FFFD.
C8_JSONRoundTripOfValidText ==
    (Happened("json.Unmarshal")
     /\ \A i \in 1..len(flashcards) :
          /\ ValidUTF8(flashcards.elems[i].Question)
          /\ ValidUTF8(flashcards.elems[i].Answer)) =>
        /\ pc = "parsed"
        /\ Len(readBack) = len(flashcards)
        /\ \A i \in 1..len(flashcards) :
             /\ readBack[i].Question = flashcards.elems[i].Question
             /\ readBack[i].Answer = flashcards.elems[i].Answer

\* two different cards whose texts need escaping came back
C8_Witness ==
    /\ pc = "parsed"
    /\ len(flashcards) = 2
    /\ flashcards.elems[1].Question = <<"\"">>
    /\ flashcards.elems[2].Answer = <<"\\">>
    /\ readBack = flashcards.elems

\* the header and one record per card of the exported sequence
ExpectedRecords ==
    <<Header>> \o [i \in 1..len(flashcards) |->
                     <<flashcards.elems[i].Question, flashcards.elems[i].Answer>>]

\* C9: every card sequence of length N exported to CSV and read back yields
\* exactly N + 1 records: the header Question, Answer and then one row per
\* card, equal to its question and answer, in sequence order.
C9_CSVRoundTrip ==
    Happened("csv.ReadAll") =>
        /\ pc = "parsed"
        /\ readBack = ExpectedRecords

\* the bytes of a complete file, and the number of Write calls made
RECURSIVE ExpectedData(_)
ExpectedData(records) ==
    IF records = <<>> THEN <<>>
    ELSE CSVLine(Head(records)) \o ExpectedData(Tail(records))

WriteCalls == Cardinality({i \in 1..Len(trace) : trace[i] = "Write"})

\* C10: when a row does not reach the file, exportFlashcardsToCSVFile returns
\* a write error and writes no row after the failing one: it returns no
\* error only when the header and every row are in the file.
C10_RowFailureIsReported ==
    (Happened("exportFlashcardsToCSVFile") /\ ~Happened("csv.ReadAll")) =>
        /\ (file.exists /\ file.data # ExpectedData(ExpectedRecords)) => err = "write"
        /\ err = "write" => Len(file.data) < Len(ExpectedData(ExpectedRecords))
        /\ WriteCalls <= 1 + len(flashcards)

\* the JSON export of the run wrote its file and reported success
JSONExported ==
    /\ Happened("exportFlashcardsToJSONFile")
    /\ Printed("Flashcards exported to")

\* the letters that only the key "question" and only the key "answer" hold
IsKeyLetter(c) == c \in {"q", "w"}

\* C11: for every card sequence the run hands to the JSON export, the empty
\* one of a page where both selectors match nothing included, the file
\* written is a JSON array holding one object per card, whose two fields are
\* the question and then the answer.
C11_JSONFileIsAnArray ==
    JSONExported =>
        /\ file.exists
        /\ Len(file.data) >= 2
        /\ file.data[1] = "["
        /\ file.data[Len(file.data)] = "]"
        /\ Unmarshal(file.data).err = "nil"
        /\ Unmarshal(file.data).flashcards.elems = flashcards.elems
        /\ SelectSeq(file.data, IsKeyLetter) =
               [i \in 1..(2 * len(flashcards)) |-> IF i % 2 = 1 THEN "q" ELSE "w"]

\* the error reports printed so far
ErrorReports == {i \in 1..Len(out) : out[i] \in ErrorMessages}

\* C12: whatever URL, selectors, output path and preview flag Run is given, it
\* returns to its caller with success or exactly one error report: it never
\* ends the process by a panic, and never reports two errors.
C12_RunAlwaysReturns ==
    /\ pc # "panicked"
    /\ ~Happened("panic")
    /\ Cardinality(ErrorReports) <= 1

\* C13: the clean-up of a card text is idempotent: cleaning a text that was
\* already cleaned changes nothing.
C13_NormalizeIsIdempotent ==
    pc = "normalized" => readBack[2] = readBack[1]

\* a text that loses a line feed, a blank and a carriage return, cleaned twice
C13_Witness ==
    /\ pc = "normalized"
    /\ page[1].text = <<"\n", " ", "x", "\r">>
    /\ readBack = << <<"x">>, <<"x">> >>

\* the calls that open the stages, in the order of the pipeline: fetch,
\* extract, pair, preview, export
StageCalls == <<{"http.Get"}, {"parse"}, {"Each"}, {"printFlashcards"},
                {"exportFlashcardsToJSONFile", "exportFlashcardsToCSVFile"}>>
Entered(stage) == {i \in 1..Len(trace) : trace[i] \in StageCalls[stage]}

\* C14: in every run the stages fetch, extract, pair, preview (when enabled)
\* and export are entered in this order and each at most once; the first
\* error stops the run; a file is written only after fetch, parse and
\* pairing succeeded and, with preview enabled, after the operator confirmed.
C14_StagesInOrder ==
    /\ \A stage \in 1..Len(StageCalls) : Cardinality(Entered(stage)) <= 1
    /\ \A a, b \in 1..Len(StageCalls) :
         a < b => \A i \in Entered(a), j \in Entered(b) : i < j
    /\ \A stage \in 2..3 : Entered(stage) # {} => Entered(stage - 1) # {}
    /\ \A stage \in 4..5 : Entered(stage) # {} => Entered(3) # {}
    /\ Entered(4) # {} <=> Answered
    /\ Answered => flags.preview
    /\ ErrorReported =>
         /\ pc = "returned"
         /\ Cardinality(ErrorReports) = 1
         /\ out[Len(out)] \in ErrorMessages
    /\ (file.exists \/ Entered(5) # {}) =>
         /\ status = 200
         /\ Entered(3) # {}
         /\ flags.preview => Confirmed

\* a run through all five stages: the operator confirmed and the file exists
C14_Witness ==
    /\ pc = "returned"
    /\ \A stage \in 1..Len(StageCalls) : Entered(stage) # {}
    /\ Confirmed
    /\ file.exists
    /\ ~ErrorReported

\* where a call occurs in the run
Calls(call) == {i \in 1..Len(trace) : trace[i] = call}

\* the calls scrapeFlashcards makes, and those that only follow its return
ScrapeCalls == {"http.Get", "parse", "Find", "Each"}
AfterScrape == {"printFlashcards", "Scanln", "exportFlashcardsToJSONFile",
                "exportFlashcardsToCSVFile", "os.WriteFile", "os.Create",
                "Write", "Flush", "Close"}

\* C15: once the HTTP request succeeded, the response body is closed before
\* scrapeFlashcards returns, whether it returns cards, a bad-status error, a
\* parse error or a count-mismatch error; once the CSV file was created, it
\* is closed before the export returns, whether it succeeds or a write
\* fails. No state of a run has the body or the file still open.
C15_ResourcesReleased ==
    /\ (Happened("http.Get") /\ status # 0) =>
         /\ Cardinality(Calls("Body.Close")) = 1
         /\ \A c \in Calls("Body.Close") :
              /\ \A i \in 1..Len(trace) : trace[i] \in ScrapeCalls => i < c
              /\ \A i \in 1..Len(trace) : trace[i] \in AfterScrape => c < i
    /\ (Happened("os.Create") /\ file.exists) =>
         /\ Cardinality(Calls("Close")) = 1
         /\ trace[Len(trace)] = "Close"

\* a run whose CSV export failed in a write: body and file are both closed
C15_Witness ==
    /\ pc = "returned"
    /\ err = "write"
    /\ Happened("exportFlashcardsToCSVFile")
    /\ file.exists
    /\ Happened("Body.Close")
    /\ Happened("Close")

\* C16: on every path of the CSV export after the file was created, success
\* and row-write error alike, the writer is flushed once and before the file
\* is closed, after the last Write; what the file holds is a prefix of the
\* header and the rows.
C16_FlushBeforeClose ==
    (Happened("os.Create") /\ file.exists) =>
        /\ Cardinality(Calls("Flush")) = 1
        /\ Cardinality(Calls("Close")) = 1
        /\ \A f \in Calls("Flush"), c \in Calls("Close") : f < c
        /\ \A w \in Calls("Write"), f \in Calls("Flush") : w < f
        /\ Len(file.data) <= Len(ExpectedData(ExpectedRecords))
        /\ file.data = SubSeq(ExpectedData(ExpectedRecords), 1, Len(file.data))

\* the first of two rows failed in its Write: the flush and the close follow
C16_Witness ==
    /\ pc = "failed"
    /\ err = "write"
    /\ len(flashcards) = 2
    /\ WriteCalls = 2
    /\ Happened("Flush")
    /\ trace[Len(trace)] = "Close"

\* C17: every run terminates: provided each blocking call returns, Run
\* reaches a final state (exported, no-op, aborted or error reported) and
\* returns, and it never fetches twice nor enters a stage a second time.
C17_RunTerminates ==
    /\ <>(pc = "returned")
    /\ [](\A stage \in 1..Len(StageCalls) : Cardinality(Entered(stage)) <= 1)

====
